---- MODULE Spec2Model ----
(***************************************************************************)
(* TrackedStorage (src/src/TrackedStorage.ts): a reactive, prefix-         *)
(* namespaced cache over the Web Storage API.  Strings that the code       *)
(* concatenates, slices or tests with startsWith (prefixes, keys, cache    *)
(* keys) are sequences of tokens; raw storage values are JSON texts.       *)
(***************************************************************************)
EXTENDS Integers, Sequences, FiniteSets, TLC

VARIABLES
    storage,            \* window.localStorage / window.sessionStorage: area -> (full key -> raw text)
    sharedCaches,       \* module-level Map: cache key -> reference to a TrackedMap
    sharedManagedKeys,  \* module-level Map: cache key -> reference to a Set
    cacheHeap,          \* the TrackedMap objects, by reference
    keysHeap,           \* the Set objects (insertion ordered), by reference
    listenerRegistered, \* WeakSet<Storage>: areas whose 'storage' listener is installed
    handles,            \* the TrackedStorage instances constructed so far
    scope,              \* the areas, prefixes and logical keys this behaviour works with
    written,            \* <<area, prefix, full key>>: substrate keys whose value a handle wrote
    used,               \* how many constructions / handle calls / outside changes happened
    last,               \* the call that was made last, with its arguments and its result
    pending,            \* change notifications of another tab's writes, not yet delivered
    decorated           \* <<handle, property>>: the decorated properties of the storage managers

vars == <<storage, sharedCaches, sharedManagedKeys, cacheHeap, keysHeap,
          listenerRegistered, handles, scope, written, used, last, pending, decorated>>

----------------------------------------------------------------------------
(* Bounds of the model *)

MaxConstruct == 2
MaxCalls == 2
MaxDirect == 1
MaxEvents == 1
MaxSteps == 5

----------------------------------------------------------------------------
(* Strings *)

DEFAULT_PREFIX == <<"__tracked_storage__">>

Areas == {"local", "session"}
Prefixes == {DEFAULT_PREFIX, <<"custom">>}
NestedPrefix == <<"custom", ":", "x">>
LogicalKeys == {<<"k">>, <<"j">>}

\* two namespaces of one area; one namespace on both areas; two keys of one
\* namespace; a namespace and one that extends it with the separator; and one
\* namespace whose callers also pass values without a JSON text and whose
\* substrate may refuse a write (faults)
Scopes ==
    {[areas |-> {"local"}, prefixes |-> Prefixes, keys |-> {<<"k">>}, faults |-> FALSE],
     [areas |-> Areas, prefixes |-> {DEFAULT_PREFIX}, keys |-> {<<"k">>}, faults |-> FALSE],
     [areas |-> {"session"}, prefixes |-> {<<"custom">>}, keys |-> LogicalKeys, faults |-> FALSE],
     [areas |-> {"local"}, prefixes |-> {<<"custom">>, NestedPrefix}, keys |-> {<<"k">>},
      faults |-> FALSE],
     [areas |-> {"local"}, prefixes |-> {DEFAULT_PREFIX}, keys |-> {<<"k">>}, faults |-> TRUE]}

startsWith(s, p) == Len(s) >= Len(p) /\ SubSeq(s, 1, Len(p)) = p

slice(s, n) == SubSeq(s, n + 1, Len(s))

\* (variant: the separator is left out)
buildKey_NoSeparator(prefix, key) == prefix \o key

\* `${prefix}:${key}`
buildKey(prefix, key) == prefix \o <<":">> \o key

stripPrefix(prefix, key) ==
    LET p == prefix \o <<":">>
    IN IF startsWith(key, p) THEN slice(key, Len(p)) ELSE key

\* (variant: the area is left out of the cache key)
getCacheKey_IgnoresArea(s, prefix) == <<"local">> \o <<":">> \o prefix

getCacheKey(s, prefix) ==
    <<IF s = "local" THEN "local" ELSE "session">> \o <<":">> \o prefix

----------------------------------------------------------------------------
(* JavaScript values *)

JSNull == [t |-> "null"]
JSUndefined == [t |-> "undefined"]
JSStr(s) == [t |-> "string", s |-> s]
JSObj(n, frozen) == [t |-> "object", n |-> n, frozen |-> frozen]
JSNum(n) == [t |-> "number", n |-> n]
\* a function (or a symbol), and an object that refers to itself
JSFunc == [t |-> "function"]
JSCircular == [t |-> "circular"]

\* structural (deep) equality: frozenness is not part of the structure
Plain(v) == IF v.t = "object" THEN JSObj(v.n, FALSE) ELSE v
DeepEqual(a, b) == Plain(a) = Plain(b)

\* the values callers pass to setItem
SetValues == {JSNull, JSUndefined, JSStr("a"), JSObj(1, FALSE), JSFunc, JSCircular}

\* raw texts another context may leave in the substrate or report in an event
RawTexts == {"\"a\"", "{\"n\":1}", "null", "", "{"}

\* JSON.stringify raises a TypeError for a circular structure
StringifyThrows(v) == v.t = "circular"

JSONStringify(v) ==
    CASE v.t = "string" -> JSStr("\"" \o v.s \o "\"")
      [] v.t = "object" -> JSStr("{\"n\":1}")
      [] v.t = "null" -> JSStr("null")
      [] OTHER -> JSUndefined

\* JSON.parse with the freezing reviver; threw = SyntaxError
JSONParseFrozen(text) ==
    CASE text = "\"a\"" -> [threw |-> FALSE, val |-> JSStr("a")]
      [] text = "{\"n\":1}" -> [threw |-> FALSE, val |-> JSObj(1, TRUE)]
      [] text = "null" -> [threw |-> FALSE, val |-> JSNull]
      [] OTHER -> [threw |-> TRUE, val |-> JSUndefined]

\* the string a value becomes when it is passed where a string is expected
JSToString(v) == IF v.t = "string" THEN v.s ELSE v.t

jsonParseAndFreeze(json) ==
    IF json.t \in {"null", "undefined"} \/ json = JSStr("")
    THEN [threw |-> FALSE, val |-> JSNull]
    ELSE JSONParseFrozen(json.s)

----------------------------------------------------------------------------
(* Map, Set and Storage primitives *)

EmptyMap == [x \in {} |-> JSNull]

MapSet(m, k, v) == [x \in DOMAIN m \cup {k} |-> IF x = k THEN v ELSE m[x]]
MapDelete(m, k) == [x \in DOMAIN m \ {k} |-> m[x]]
MapHas(m, k) == k \in DOMAIN m

Range(q) == {q[i] : i \in 1..Len(q)}
SetHas(q, k) == k \in Range(q)
SetAdd(q, k) == IF SetHas(q, k) THEN q ELSE Append(q, k)
SetDelete(q, k) == SelectSeq(q, LAMBDA x : x # k)

StorageGetItem(st, k) == IF k \in DOMAIN st THEN JSStr(st[k]) ELSE JSNull
StorageSetItem(st, k, text) == MapSet(st, k, text)
StorageRemoveItem(st, k) == MapDelete(st, k)

Perms(S) ==
    {q \in [1..Cardinality(S) -> S] : \A i, j \in 1..Cardinality(S) : i # j => q[i] # q[j]}

----------------------------------------------------------------------------
(* The record of the last call *)

NoKey == <<>>

Call(op, s, prefix, key, value, before, ret, threw) ==
    [op |-> op, storage |-> s, prefix |-> prefix, key |-> key,
     value |-> value, before |-> before, ret |-> ret, threw |-> threw]

MayStep == used.construct + used.call + used.direct + used.event < MaxSteps

\* the substrate keys of an area that stop being "written through a handle"
Forget(s, keys) == {w \in written : ~(w[1] = s /\ w[3] \in keys)}

Spend(what) == [used EXCEPT ![what] = @ + 1]

----------------------------------------------------------------------------
(* new TrackedStorage(storage, prefix) *)

\* the optional second argument of the constructor
NoPrefix == [given |-> FALSE, prefix |-> <<>>]
GivenPrefix(p) == [given |-> TRUE, prefix |-> p]

\* line 59: prefix ?? DEFAULT_PREFIX
ResolvePrefix(arg) == IF arg.given THEN arg.prefix ELSE DEFAULT_PREFIX

Handle(s, prefix, cid, mid) ==
    [storage |-> s, prefix |-> prefix, cacheKey |-> getCacheKey(s, prefix),
     cache |-> cid, managedKeys |-> mid]

\* (variant: every construction starts from a fresh cache and managed set)
NeedsNewCache_Always(ck) == TRUE

\* "Get or create shared cache": a new pair of objects only for a cache key never seen
NeedsNewCache(ck) == ck \notin DOMAIN sharedCaches

\* (variant: the constructor does not look for keys that are gone)
SyncLoop_KeepsAll(st, cache, keys) == [cache |-> cache, keys |-> keys]

\* (variant: the keys that are gone leave the managed set but stay cached)
SyncLoop_KeepsCache(st, cache, keys) ==
    LET gone == {k \in Range(keys) : StorageGetItem(st, k) = JSNull}
    IN [cache |-> cache, keys |-> SelectSeq(keys, LAMBDA x : x \notin gone)]

\* "Sync cache with storage: remove cached keys that no longer exist in storage"
SyncLoop(st, cache, keys) ==
    LET gone == {k \in Range(keys) : StorageGetItem(st, k) = JSNull}
    IN [cache |-> [x \in DOMAIN cache \ gone |-> cache[x]],
        keys |-> SelectSeq(keys, LAMBDA x : x \notin gone)]

\* (variant: the scan forgets the prefix test)
ScanTakes_NoPrefixTest(prefix, keys, key) == ~SetHas(keys, key)

\* the scan takes a key when it is under `${prefix}:` and not yet managed
ScanTakes(prefix, keys, key) ==
    startsWith(key, prefix \o <<":">>) /\ ~SetHas(keys, key)

\* "Add any new keys from storage that match our prefix", in the substrate's order
RECURSIVE ScanLoop(_, _, _, _, _)
ScanLoop(order, st, prefix, cache, keys) ==
    IF order = <<>>
    THEN [cache |-> cache, keys |-> keys, threw |-> FALSE]
    ELSE LET key == Head(order)
             r == jsonParseAndFreeze(StorageGetItem(st, key))
         IN IF ScanTakes(prefix, keys, key)
            THEN IF r.threw
                 THEN [cache |-> cache, keys |-> keys, threw |-> TRUE]
                 ELSE ScanLoop(Tail(order), st, prefix,
                               MapSet(cache, key, r.val), SetAdd(keys, key))
            ELSE ScanLoop(Tail(order), st, prefix, cache, keys)

\* the orders in which storage.key(i) may enumerate the keys of the area
StorageOrders(st) == Perms(DOMAIN st)

Construct(s, arg) ==
    /\ MayStep /\ used.construct < MaxConstruct
    /\ LET prefix == ResolvePrefix(arg)
           ck == getCacheKey(s, prefix)
           new == NeedsNewCache(ck)
           cid == IF new THEN Len(cacheHeap) + 1 ELSE sharedCaches[ck]
           mid == IF new THEN Len(keysHeap) + 1 ELSE sharedManagedKeys[ck]
           cache0 == IF new THEN EmptyMap ELSE cacheHeap[cid]
           keys0 == IF new THEN <<>> ELSE keysHeap[mid]
           synced == SyncLoop(storage[s], cache0, keys0)
       IN \E order \in StorageOrders(storage[s]) :
            LET scanned == ScanLoop(order, storage[s], prefix, synced.cache, synced.keys)
            IN /\ sharedCaches' = MapSet(sharedCaches, ck, cid)
               /\ sharedManagedKeys' = MapSet(sharedManagedKeys, ck, mid)
               /\ cacheHeap' = IF new THEN Append(cacheHeap, scanned.cache)
                               ELSE [cacheHeap EXCEPT ![cid] = scanned.cache]
               /\ keysHeap' = IF new THEN Append(keysHeap, scanned.keys)
                              ELSE [keysHeap EXCEPT ![mid] = scanned.keys]
               /\ listenerRegistered' =
                     IF scanned.threw THEN listenerRegistered
                     ELSE listenerRegistered \cup {s}
               /\ handles' = IF scanned.threw THEN handles
                             ELSE handles \cup {Handle(s, prefix, cid, mid)}
               /\ last' = Call("construct", s, prefix, NoKey,
                               IF arg.given THEN [t |-> "string", chars |-> arg.prefix]
                               ELSE JSUndefined,
                               JSNum(Len(keys0)), JSUndefined, scanned.threw)
    /\ used' = Spend("construct")
    /\ UNCHANGED <<storage, scope, written>>

----------------------------------------------------------------------------
(* Instance methods *)

\* (variant: getItem answers from the cache only)
GetItemResult_CacheOnly(h, key) ==
    LET prefixedKey == buildKey(h.prefix, key)
    IN IF MapHas(cacheHeap[h.cache], prefixedKey)
       THEN [threw |-> FALSE, val |-> cacheHeap[h.cache][prefixedKey]]
       ELSE [threw |-> FALSE, val |-> JSNull]

\* what getItem returns (lines 153-173)
GetItemResult(h, key) ==
    LET prefixedKey == buildKey(h.prefix, key)
        rawValue == StorageGetItem(storage[h.storage], prefixedKey)
    IN IF MapHas(cacheHeap[h.cache], prefixedKey)
       THEN [threw |-> FALSE, val |-> cacheHeap[h.cache][prefixedKey]]
       ELSE IF rawValue = JSNull
            THEN [threw |-> FALSE, val |-> JSNull]
            ELSE jsonParseAndFreeze(rawValue)

\* (variant: a key that the substrate does not hold either is cached as null)
GetItemRepairs_AlsoAbsent(h, key) ==
    /\ ~MapHas(cacheHeap[h.cache], buildKey(h.prefix, key))
    /\ ~GetItemResult(h, key).threw

\* getItem caches what it had to read from the substrate
GetItemRepairs(h, key) ==
    LET prefixedKey == buildKey(h.prefix, key)
    IN /\ ~MapHas(cacheHeap[h.cache], prefixedKey)
       /\ StorageGetItem(storage[h.storage], prefixedKey) # JSNull
       /\ ~GetItemResult(h, key).threw

\* (variant: getItem returns what it read and caches nothing)
GetItemEffect_NoRepair(h, key) == cacheHeap' = cacheHeap

\* lines 170-171: the cache after getItem
GetItemEffect(h, key) ==
    cacheHeap' = IF GetItemRepairs(h, key)
                 THEN [cacheHeap EXCEPT ![h.cache] =
                          MapSet(@, buildKey(h.prefix, key), GetItemResult(h, key).val)]
                 ELSE cacheHeap

GetItem(h, key) ==
    /\ MayStep /\ used.call < MaxCalls
    /\ LET r == GetItemResult(h, key)
       IN /\ GetItemEffect(h, key)
          /\ last' = Call("getItem", h.storage, h.prefix, key, JSUndefined, JSUndefined,
                          IF r.threw THEN JSUndefined ELSE r.val, r.threw)
    /\ used' = Spend("call")
    /\ UNCHANGED <<storage, sharedCaches, sharedManagedKeys, keysHeap,
                   listenerRegistered, handles, scope, written>>

\* (variant: removeItem also removes the unprefixed key of the same name)
RemoveEffect_AlsoBareKey(h, key) ==
    LET prefixedKey == buildKey(h.prefix, key)
    IN /\ cacheHeap' = [cacheHeap EXCEPT ![h.cache] = MapDelete(@, prefixedKey)]
       /\ keysHeap' = [keysHeap EXCEPT ![h.managedKeys] = SetDelete(@, prefixedKey)]
       /\ storage' = [storage EXCEPT ![h.storage] =
                         StorageRemoveItem(StorageRemoveItem(@, prefixedKey), key)]

\* removeItem (lines 201-206)
RemoveEffect(h, key) ==
    LET prefixedKey == buildKey(h.prefix, key)
    IN /\ cacheHeap' = [cacheHeap EXCEPT ![h.cache] = MapDelete(@, prefixedKey)]
       /\ keysHeap' = [keysHeap EXCEPT ![h.managedKeys] = SetDelete(@, prefixedKey)]
       /\ storage' = [storage EXCEPT ![h.storage] = StorageRemoveItem(@, prefixedKey)]

\* (variant: removing a key that the substrate does not hold raises)
RemoveItem_ThrowsIfAbsent(h, key) ==
    /\ MayStep /\ used.call < MaxCalls
    /\ RemoveEffect(h, key)
    /\ last' = Call("removeItem", h.storage, h.prefix, key, JSUndefined,
                    GetItemResult(h, key).val, JSUndefined,
                    buildKey(h.prefix, key) \notin DOMAIN storage[h.storage])
    /\ used' = Spend("call")
    /\ UNCHANGED <<sharedCaches, sharedManagedKeys, listenerRegistered, handles, scope>>
    /\ written' = Forget(h.storage, {buildKey(h.prefix, key)})

RemoveItem(h, key) ==
    /\ MayStep /\ used.call < MaxCalls
    /\ RemoveEffect(h, key)
    /\ last' = Call("removeItem", h.storage, h.prefix, key, JSUndefined,
                    GetItemResult(h, key).val, JSUndefined, FALSE)
    /\ used' = Spend("call")
    /\ UNCHANGED <<sharedCaches, sharedManagedKeys, listenerRegistered, handles, scope>>
    /\ written' = Forget(h.storage, {buildKey(h.prefix, key)})

\* (variant: only null is taken for a removal)
IsRemoval_NullOnly(value) == value = JSNull

\* setItem delegates to removeItem for these values (line 180)
IsRemoval(value) == value = JSUndefined \/ value = JSNull

\* (variant: a key that is already cached keeps its cached value)
SetEffect_KeepsCached(h, key, value) ==
    LET prefixedKey == buildKey(h.prefix, key)
        json == JSONStringify(value)
    IN /\ cacheHeap' = [cacheHeap EXCEPT ![h.cache] =
                           IF MapHas(@, prefixedKey) THEN @
                           ELSE MapSet(@, prefixedKey, jsonParseAndFreeze(json).val)]
       /\ keysHeap' = [keysHeap EXCEPT ![h.managedKeys] = SetAdd(@, prefixedKey)]
       /\ storage' = [storage EXCEPT ![h.storage] = StorageSetItem(@, prefixedKey, JSToString(json))]

\* (variant: the cache holds the caller's object itself)
SetEffect_StoresInput(h, key, value) ==
    LET prefixedKey == buildKey(h.prefix, key)
        json == JSONStringify(value)
    IN /\ cacheHeap' = [cacheHeap EXCEPT ![h.cache] = MapSet(@, prefixedKey, value)]
       /\ keysHeap' = [keysHeap EXCEPT ![h.managedKeys] = SetAdd(@, prefixedKey)]
       /\ storage' = [storage EXCEPT ![h.storage] = StorageSetItem(@, prefixedKey, JSToString(json))]

\* (variant: the cache is replaced by a mapping that holds the new entry only)
SetEffect_DropsOthers(h, key, value) ==
    LET prefixedKey == buildKey(h.prefix, key)
        json == JSONStringify(value)
    IN /\ cacheHeap' = [cacheHeap EXCEPT ![h.cache] =
                           MapSet(EmptyMap, prefixedKey, jsonParseAndFreeze(json).val)]
       /\ keysHeap' = [keysHeap EXCEPT ![h.managedKeys] = SetAdd(@, prefixedKey)]
       /\ storage' = [storage EXCEPT ![h.storage] = StorageSetItem(@, prefixedKey, JSToString(json))]

\* setItem (lines 179-196)
SetEffect(h, key, value) ==
    LET prefixedKey == buildKey(h.prefix, key)
        json == JSONStringify(value)
    IN /\ cacheHeap' = [cacheHeap EXCEPT ![h.cache] =
                           MapSet(@, prefixedKey, jsonParseAndFreeze(json).val)]
       /\ keysHeap' = [keysHeap EXCEPT ![h.managedKeys] = SetAdd(@, prefixedKey)]
       /\ storage' = [storage EXCEPT ![h.storage] = StorageSetItem(@, prefixedKey, JSToString(json))]

\* the caller's value after the call: JSON.stringify only reads it (line 186), and
\* what is frozen is the copy parsed from the text (line 189)
ValueAfterSet(value) == value

\* lines 185-192 done, then storage.setItem (line 195) raises QuotaExceededError
SetEffectUntilWrite(h, key, value) ==
    LET prefixedKey == buildKey(h.prefix, key)
        json == JSONStringify(value)
    IN /\ cacheHeap' = [cacheHeap EXCEPT ![h.cache] =
                           MapSet(@, prefixedKey, jsonParseAndFreeze(json).val)]
       /\ keysHeap' = [keysHeap EXCEPT ![h.managedKeys] = SetAdd(@, prefixedKey)]
       /\ storage' = storage

\* how a setItem call ends: as a removal, with JSON.stringify raising, with the
\* substrate write raising, or with the value stored
SetOutcomes(value) ==
    IF IsRemoval(value) THEN {"removed"}
    ELSE IF StringifyThrows(value) THEN {"stringifyThrew"}
    ELSE {"stored"} \cup (IF scope.faults THEN {"writeThrew"} ELSE {})

SetItemBody(h, key, value, outcome) ==
    /\ CASE outcome = "removed" -> RemoveEffect(h, key)
         [] outcome = "stringifyThrew" -> UNCHANGED <<cacheHeap, keysHeap, storage>>
         [] outcome = "writeThrew" -> SetEffectUntilWrite(h, key, value)
         [] OTHER -> SetEffect(h, key, value)
    /\ written' = CASE outcome = "removed" -> Forget(h.storage, {buildKey(h.prefix, key)})
                    [] outcome = "stored" ->
                          Forget(h.storage, {buildKey(h.prefix, key)})
                              \cup {<<h.storage, h.prefix, buildKey(h.prefix, key)>>}
                    [] OTHER -> written

SetItem(h, key, value) ==
    /\ MayStep /\ used.call < MaxCalls
    /\ \E outcome \in SetOutcomes(value) :
          /\ SetItemBody(h, key, value, outcome)
          /\ last' = Call("setItem", h.storage, h.prefix, key, ValueAfterSet(value),
                          GetItemResult(h, key).val, JSUndefined,
                          outcome \in {"stringifyThrew", "writeThrew"})
    /\ used' = Spend("call")
    /\ UNCHANGED <<sharedCaches, sharedManagedKeys, listenerRegistered, handles, scope>>

\* (variant: clear empties the whole area)
Clear_WipesArea(h) ==
    /\ MayStep /\ used.call < MaxCalls
    /\ storage' = [storage EXCEPT ![h.storage] = [x \in {} |-> ""]]
    /\ cacheHeap' = [cacheHeap EXCEPT ![h.cache] = EmptyMap]
    /\ keysHeap' = [keysHeap EXCEPT ![h.managedKeys] = <<>>]
    /\ last' = Call("clear", h.storage, h.prefix, NoKey, JSUndefined,
                    JSNum(Len(keysHeap[h.managedKeys])), JSUndefined, FALSE)
    /\ used' = Spend("call")
    /\ UNCHANGED <<sharedCaches, sharedManagedKeys, listenerRegistered, handles, scope>>
    /\ written' = Forget(h.storage, DOMAIN storage[h.storage])

\* clear (lines 211-221)
Clear(h) ==
    /\ MayStep /\ used.call < MaxCalls
    /\ LET keysToRemove == Range(keysHeap[h.managedKeys])
       IN storage' = [storage EXCEPT ![h.storage] =
                         [x \in DOMAIN @ \ keysToRemove |-> @[x]]]
    /\ cacheHeap' = [cacheHeap EXCEPT ![h.cache] = EmptyMap]
    /\ keysHeap' = [keysHeap EXCEPT ![h.managedKeys] = <<>>]
    /\ last' = Call("clear", h.storage, h.prefix, NoKey, JSUndefined,
                    JSNum(Len(keysHeap[h.managedKeys])), JSUndefined, FALSE)
    /\ used' = Spend("call")
    /\ UNCHANGED <<sharedCaches, sharedManagedKeys, listenerRegistered, handles, scope>>
    /\ written' = Forget(h.storage, Range(keysHeap[h.managedKeys]))

\* (variant: clearCache also removes the managed keys from the substrate)
ClearCache_AlsoSubstrate(h) ==
    /\ MayStep /\ used.call < MaxCalls
    /\ cacheHeap' = [cacheHeap EXCEPT ![h.cache] = EmptyMap]
    /\ storage' = [storage EXCEPT ![h.storage] =
                      [x \in DOMAIN @ \ Range(keysHeap[h.managedKeys]) |-> @[x]]]
    /\ last' = Call("clearCache", h.storage, h.prefix, NoKey, JSUndefined, JSUndefined,
                    JSUndefined, FALSE)
    /\ used' = Spend("call")
    /\ UNCHANGED <<sharedCaches, sharedManagedKeys, keysHeap,
                   listenerRegistered, handles, scope, written>>

\* clearCache (lines 246-248)
ClearCache(h) ==
    /\ MayStep /\ used.call < MaxCalls
    /\ cacheHeap' = [cacheHeap EXCEPT ![h.cache] = EmptyMap]
    /\ last' = Call("clearCache", h.storage, h.prefix, NoKey, JSUndefined, JSUndefined,
                    JSUndefined, FALSE)
    /\ used' = Spend("call")
    /\ UNCHANGED <<storage, sharedCaches, sharedManagedKeys, keysHeap,
                   listenerRegistered, handles, scope, written>>

\* the length getter and key(index): pure reads
Length(h) == Len(keysHeap[h.managedKeys])

\* (variant: key(index) returns the full key)
Key_KeepsPrefix(h, index) ==
    IF index < 0 \/ index >= Len(keysHeap[h.managedKeys])
    THEN JSNull
    ELSE [t |-> "string", chars |-> keysHeap[h.managedKeys][index + 1]]

Key(h, index) ==
    IF index < 0 \/ index >= Len(keysHeap[h.managedKeys])
    THEN JSNull
    ELSE [t |-> "string", chars |-> stripPrefix(h.prefix, keysHeap[h.managedKeys][index + 1])]

----------------------------------------------------------------------------
(* The 'storage' event listener (lines 99-127), one per area with a handle *)

NoArea == "none"

\* (variant: the listener does not compare the origin area)
ListenerSkips_AnyArea(s, key, area) == key = NoKey

\* line 100: the listener of area s returns at once
ListenerSkips(s, key, area) == key = NoKey \/ area # s

\* (variant: the listener updates only the entry that was registered first)
EntriesToUpdate_FirstOnly(s, key) ==
    {ck \in DOMAIN sharedManagedKeys :
        /\ startsWith(ck, <<IF s = "local" THEN "local" ELSE "session", ":">>)
        /\ SetHas(keysHeap[sharedManagedKeys[ck]], key)
        /\ sharedCaches[ck] = 1}

\* lines 109-114: the registered entries the listener of area s updates
EntriesToUpdate(s, key) ==
    {ck \in DOMAIN sharedManagedKeys :
        /\ startsWith(ck, <<IF s = "local" THEN "local" ELSE "session", ":">>)
        /\ SetHas(keysHeap[sharedManagedKeys[ck]], key)}

\* lines 119-124: "Track or untrack key based on whether it was added or removed"
Retrack(keys, key, newValue) ==
    IF newValue # JSNull THEN SetAdd(keys, key) ELSE SetDelete(keys, key)

\* the areas whose listener gets past its guards for this event
Listening(key, area) == {s \in listenerRegistered : ~ListenerSkips(s, key, area)}

EventTargets(key, area) == UNION {EntriesToUpdate(s, key) : s \in Listening(key, area)}

StorageEvent(key, newValue, area) ==
    /\ MayStep /\ used.event < MaxEvents
    /\ LET targets == EventTargets(key, area)
           parsed == jsonParseAndFreeze(newValue)
           threw == targets # {} /\ parsed.threw
           caches == IF threw THEN {} ELSE {sharedCaches[ck] : ck \in targets}
           sets == IF threw THEN {} ELSE {sharedManagedKeys[ck] : ck \in targets}
       IN /\ cacheHeap' = [i \in DOMAIN cacheHeap |->
                              IF i \in caches THEN MapSet(cacheHeap[i], key, parsed.val)
                              ELSE cacheHeap[i]]
          /\ keysHeap' = [i \in DOMAIN keysHeap |->
                             IF i \in sets THEN Retrack(keysHeap[i], key, parsed.val)
                             ELSE keysHeap[i]]
          /\ last' = Call("event", area, <<>>, key, newValue, JSUndefined, JSUndefined, threw)
    /\ used' = Spend("event")
    /\ UNCHANGED <<storage, sharedCaches, sharedManagedKeys, listenerRegistered, handles, scope, written>>

----------------------------------------------------------------------------
(* Changes made to the substrate without a handle: another tab, or a direct *)
(* window.localStorage.setItem / removeItem call                            *)

\* the full keys of the scope, and an unprefixed key named like a logical key
FullKeys == {buildKey(p, k) : p \in scope.prefixes, k \in scope.keys} \cup {<<"k">>}

DirectSetItem(s, fullKey, text) ==
    /\ MayStep /\ used.direct < MaxDirect
    /\ storage' = [storage EXCEPT ![s] = StorageSetItem(@, fullKey, text)]
    /\ last' = Call("directSetItem", s, <<>>, fullKey, JSStr(text), JSUndefined,
                    JSUndefined, FALSE)
    /\ used' = Spend("direct")
    /\ UNCHANGED <<sharedCaches, sharedManagedKeys, cacheHeap, keysHeap,
                   listenerRegistered, handles, scope>>
    /\ written' = Forget(s, {fullKey})

DirectRemoveItem(s, fullKey) ==
    /\ MayStep /\ used.direct < MaxDirect
    /\ fullKey \in DOMAIN storage[s]
    /\ storage' = [storage EXCEPT ![s] = StorageRemoveItem(@, fullKey)]
    /\ last' = Call("directRemoveItem", s, <<>>, fullKey, JSUndefined, JSUndefined,
                    JSUndefined, FALSE)
    /\ used' = Spend("direct")
    /\ UNCHANGED <<sharedCaches, sharedManagedKeys, cacheHeap, keysHeap,
                   listenerRegistered, handles, scope>>
    /\ written' = Forget(s, {fullKey})

----------------------------------------------------------------------------
(* The specification *)

Init ==
    /\ storage = [s \in Areas |-> [x \in {} |-> ""]]
    /\ sharedCaches = [x \in {} |-> 0]
    /\ sharedManagedKeys = [x \in {} |-> 0]
    /\ cacheHeap = <<>>
    /\ keysHeap = <<>>
    /\ listenerRegistered = {}
    /\ handles = {}
    /\ scope \in Scopes
    /\ written = {}
    /\ used = [construct |-> 0, call |-> 0, direct |-> 0, event |-> 0]
    /\ last = Call("init", NoArea, <<>>, NoKey, JSUndefined, JSUndefined, JSUndefined, FALSE)
    /\ pending = <<>>
    /\ decorated = {}

EventValues == {JSNull} \cup {JSStr(t) : t \in RawTexts}

\* the values the callers of the scope pass to setItem
ScopeValues == IF scope.faults THEN SetValues ELSE SetValues \ {JSFunc, JSCircular}

\* the prefix arguments of the scope; the default namespace is reached with and
\* without the argument
PrefixArgs ==
    {GivenPrefix(p) : p \in scope.prefixes}
        \cup (IF DEFAULT_PREFIX \in scope.prefixes THEN {NoPrefix} ELSE {})

Next ==
    \/ \E s \in scope.areas, arg \in PrefixArgs :
          Construct(s, arg) /\ UNCHANGED <<pending, decorated>>
    \/ \E h \in handles, k \in scope.keys : GetItem(h, k) /\ UNCHANGED <<pending, decorated>>
    \/ \E h \in handles, k \in scope.keys, v \in ScopeValues :
          SetItem(h, k, v) /\ UNCHANGED <<pending, decorated>>
    \/ \E h \in handles, k \in scope.keys : RemoveItem(h, k) /\ UNCHANGED <<pending, decorated>>
    \/ \E h \in handles : Clear(h) /\ UNCHANGED <<pending, decorated>>
    \/ \E h \in handles : ClearCache(h) /\ UNCHANGED <<pending, decorated>>
    \/ \E k \in FullKeys \cup {NoKey}, v \in EventValues, a \in Areas \cup {NoArea} :
          StorageEvent(k, v, a) /\ UNCHANGED <<pending, decorated>>
    \/ \E s \in scope.areas, k \in FullKeys, t \in RawTexts :
          DirectSetItem(s, k, t) /\ UNCHANGED <<pending, decorated>>
    \/ \E s \in scope.areas, k \in FullKeys :
          DirectRemoveItem(s, k) /\ UNCHANGED <<pending, decorated>>

Spec == Init /\ [][Next]_vars

----------------------------------------------------------------------------
(* Two tabs: another tab's write changes the shared substrate at once, and   *)
(* this tab's listener is called with the change later                       *)

Notification(s, fullKey, newValue) == [key |-> fullKey, newValue |-> newValue, area |-> s]

OtherTabSetItem(s, fullKey, text) ==
    /\ DirectSetItem(s, fullKey, text)
    /\ pending' = Append(pending, Notification(s, fullKey, JSStr(text)))
    /\ UNCHANGED decorated

OtherTabRemoveItem(s, fullKey) ==
    /\ DirectRemoveItem(s, fullKey)
    /\ pending' = Append(pending, Notification(s, fullKey, JSNull))
    /\ UNCHANGED decorated

\* the event loop calls the listener with the oldest notification
Deliver ==
    /\ pending # <<>>
    /\ StorageEvent(Head(pending).key, Head(pending).newValue, Head(pending).area)
    /\ pending' = Tail(pending)
    /\ UNCHANGED decorated

NextTabs ==
    \/ \E s \in scope.areas, arg \in PrefixArgs :
          Construct(s, arg) /\ UNCHANGED <<pending, decorated>>
    \/ \E h \in handles, k \in scope.keys : GetItem(h, k) /\ UNCHANGED <<pending, decorated>>
    \/ \E h \in handles, k \in scope.keys, v \in ScopeValues :
          SetItem(h, k, v) /\ UNCHANGED <<pending, decorated>>
    \/ \E h \in handles, k \in scope.keys : RemoveItem(h, k) /\ UNCHANGED <<pending, decorated>>
    \/ \E s \in scope.areas, k \in FullKeys, t \in RawTexts : OtherTabSetItem(s, k, t)
    \/ \E s \in scope.areas, k \in FullKeys : OtherTabRemoveItem(s, k)
    \/ Deliver

\* the substrate of the two tabs accepts every write
InitTabs == Init /\ ~scope.faults

SpecTabs == InitTabs /\ [][NextTabs]_vars

----------------------------------------------------------------------------
(* The decorator over TrackedStorage: createStorageManager (tests/unit.gts)  *)

\* a declared initializer, or none
NoInitializer == [given |-> FALSE, value |-> JSUndefined]
Initializer(v) == [given |-> TRUE, value |-> v]

\* decorated class fields: @localStorage k; and @localStorage('k') foo = 'd'
Properties ==
    {[name |-> <<"k">>, customKey |-> NoKey, initializer |-> NoInitializer],
     [name |-> <<"foo">>, customKey |-> <<"k">>, initializer |-> Initializer(JSStr("d"))]}

\* customKey ?? key
storageKey(p) == IF p.customKey # NoKey THEN p.customKey ELSE p.name

\* const trackedStorage = new TrackedStorage(storage)
CreateStorageManager(s) ==
    /\ Construct(s, NoPrefix)
    /\ UNCHANGED <<pending, decorated>>

\* the handles that are the trackedStorage of a manager
Managers == {h \in handles : h.prefix = DEFAULT_PREFIX}

\* storageDecorator: initializeKey(storageKey), then the accessor is defined
Decorate(h, p) ==
    /\ MayStep /\ <<h, p>> \notin decorated
    /\ LET r == GetItemResult(h, storageKey(p))
       IN /\ GetItemEffect(h, storageKey(p))
          /\ decorated' = IF r.threw THEN decorated ELSE decorated \cup {<<h, p>>}
          /\ last' = Call("decorate", h.storage, h.prefix, storageKey(p), JSUndefined,
                          JSUndefined, JSUndefined, r.threw)
    /\ UNCHANGED <<storage, sharedCaches, sharedManagedKeys, keysHeap, listenerRegistered,
                   handles, scope, written, used, pending>>

\* (variant: a declared initializer wins over the stored value)
PropertyGetResult_InitializerFirst(h, p) ==
    LET value == GetItemResult(h, storageKey(p))
    IN IF value.threw THEN value
       ELSE IF p.initializer.given THEN [threw |-> FALSE, val |-> p.initializer.value]
       ELSE IF value.val # JSNull THEN value
       ELSE [threw |-> FALSE, val |-> JSUndefined]

\* what the getter returns
PropertyGetResult(h, p) ==
    LET value == GetItemResult(h, storageKey(p))
    IN IF value.threw THEN value
       ELSE IF value.val # JSNull THEN value
       ELSE IF p.initializer.given THEN [threw |-> FALSE, val |-> p.initializer.value]
       ELSE [threw |-> FALSE, val |-> JSUndefined]

\* get()
PropertyGet(h, p) ==
    /\ MayStep /\ used.call < MaxCalls
    /\ <<h, p>> \in decorated
    /\ LET r == PropertyGetResult(h, p)
       IN /\ GetItemEffect(h, storageKey(p))
          /\ last' = Call("propertyGet", h.storage, h.prefix, storageKey(p),
                          p.initializer.value, GetItemResult(h, storageKey(p)).val,
                          IF r.threw THEN JSUndefined ELSE r.val, r.threw)
    /\ used' = Spend("call")
    /\ UNCHANGED <<storage, sharedCaches, sharedManagedKeys, keysHeap, listenerRegistered,
                   handles, scope, written, pending, decorated>>

\* set(value)
PropertySet(h, p, value) ==
    /\ MayStep /\ used.call < MaxCalls
    /\ <<h, p>> \in decorated
    /\ \E outcome \in SetOutcomes(value) :
          /\ SetItemBody(h, storageKey(p), value, outcome)
          /\ last' = Call("propertySet", h.storage, h.prefix, storageKey(p),
                          ValueAfterSet(value), GetItemResult(h, storageKey(p)).val,
                          JSUndefined, outcome \in {"stringifyThrew", "writeThrew"})
    /\ used' = Spend("call")
    /\ UNCHANGED <<sharedCaches, sharedManagedKeys, listenerRegistered, handles, scope,
                   pending, decorated>>

\* initializeKey(key)
InitializeKey(h, key) ==
    /\ MayStep /\ used.call < MaxCalls
    /\ GetItemEffect(h, key)
    /\ last' = Call("initializeKey", h.storage, h.prefix, key, JSUndefined, JSUndefined,
                    JSUndefined, GetItemResult(h, key).threw)
    /\ used' = Spend("call")
    /\ UNCHANGED <<storage, sharedCaches, sharedManagedKeys, keysHeap, listenerRegistered,
                   handles, scope, written, pending, decorated>>

\* the manager's clearCache()
ManagerClearCache(h) ==
    /\ ClearCache(h)
    /\ UNCHANGED <<pending, decorated>>

\* the managers work in the default namespace only
InitDecorator == Init /\ scope.prefixes = {DEFAULT_PREFIX}

NextDecorator ==
    \/ \E s \in scope.areas : CreateStorageManager(s)
    \/ \E h \in Managers, p \in Properties : Decorate(h, p)
    \/ \E h \in Managers, p \in Properties : PropertyGet(h, p)
    \/ \E h \in Managers, p \in Properties, v \in ScopeValues : PropertySet(h, p, v)
    \/ \E h \in Managers, k \in scope.keys : InitializeKey(h, k)
    \/ \E h \in Managers : ManagerClearCache(h)
    \/ \E s \in scope.areas, k \in FullKeys, t \in RawTexts :
          DirectSetItem(s, k, t) /\ UNCHANGED <<pending, decorated>>
    \/ \E s \in scope.areas, k \in FullKeys :
          DirectRemoveItem(s, k) /\ UNCHANGED <<pending, decorated>>

SpecDecorator == InitDecorator /\ [][NextDecorator]_vars

----------------------------------------------------------------------------
(* Vocabulary of the properties *)

HandleOps == {"getItem", "setItem", "removeItem", "clear", "clearCache"}

\* the last call was made through a handle for h's (area, prefix) pair
Via(h) == last.op \in HandleOps /\ last.storage = h.storage /\ last.prefix = h.prefix

NullOrUndefined(v) == v \in {JSNull, JSUndefined}

\* the non-null values that have a JSON text
Serializable(v) == v.t \in {"string", "object"}

SamePair(h1, h2) == h1.storage = h2.storage /\ h1.prefix = h2.prefix

Indexes == -1 .. 3

\* everything a caller can read through a handle: get, length and key
Reads(h) ==
    [get |-> [k \in scope.keys |-> GetItemResult(h, k)],
     length |-> Length(h),
     key |-> [i \in Indexes |-> Key(h, i)]]

----------------------------------------------------------------------------
(* C1  Sharing: two handles for the same (area, prefix) pair observe each    *)
(* other's calls at once: after set(k, v) through one, get(k) on the other   *)
(* equals v; after remove(k) or clear() through one, get(k) on the other is  *)
(* null; and their lengths are equal in every state.                         *)
C1_Sharing ==
    \A h1, h2 \in handles :
        SamePair(h1, h2) =>
            /\ Length(h1) = Length(h2)
            /\ (Via(h1) /\ last.op = "setItem" /\ Serializable(last.value))
                  => DeepEqual(GetItemResult(h2, last.key).val, last.value)
            /\ (Via(h1) /\ last.op = "removeItem")
                  => GetItemResult(h2, last.key).val = JSNull
            /\ (Via(h1) /\ last.op = "clear")
                  => \A k \in scope.keys : GetItemResult(h2, k).val = JSNull

(* C2  Round trip: get(k) right after set(k, v) with a non-null v returns a  *)
(* value structurally equal to v, also when the set overwrote another value. *)
C2_RoundTrip ==
    \A h \in handles :
        (Via(h) /\ last.op = "setItem" /\ Serializable(last.value))
            => /\ ~GetItemResult(h, last.key).threw
               /\ DeepEqual(GetItemResult(h, last.key).val, last.value)

C2_Witness ==
    \E h \in handles :
        /\ Via(h) /\ last.op = "setItem" /\ last.value = JSObj(1, FALSE)
        /\ last.before = JSStr("a")
        /\ GetItemResult(h, last.key).val = JSObj(1, TRUE)

(* C3  set(k, null) and set(k, undefined) change the state exactly as        *)
(* remove(k) does; afterwards get(k) is null and the full key is in neither  *)
(* the substrate, the cache nor the managed set.                             *)
C3_NullIsRemoval ==
    [][\A h \in handles, k \in scope.keys :
          (last'.op = "setItem" /\ NullOrUndefined(last'.value) /\ last'.key = k
              /\ last'.storage = h.storage /\ last'.prefix = h.prefix)
          => /\ RemoveEffect(h, k)
             /\ GetItemResult(h, k)' = [threw |-> FALSE, val |-> JSNull]
             /\ buildKey(h.prefix, k) \notin DOMAIN storage'[h.storage]
             /\ buildKey(h.prefix, k) \notin DOMAIN cacheHeap'[h.cache]
             /\ ~SetHas(keysHeap'[h.managedKeys], buildKey(h.prefix, k))]_vars

C3_Witness ==
    \E h \in handles :
        /\ Via(h) /\ last.op = "setItem" /\ last.value = JSUndefined
        /\ last.before # JSNull
        /\ GetItemResult(h, last.key).val = JSNull

(* C4  Namespace isolation, for handles h1 and h2 on one area with different *)
(* prefixes: a set or remove through h1 decides what h1.get returns, and no  *)
(* call through h1 changes what h2.get, h2.length and h2.key return, nor any *)
(* substrate key written through h2.                                         *)
C4_NamespaceIsolation ==
    [][\A h1 \in handles :
          (last'.op \in HandleOps /\ last'.storage = h1.storage /\ last'.prefix = h1.prefix)
          => /\ \A k \in scope.keys :
                   (last'.op = "setItem" /\ Serializable(last'.value) /\ last'.key = k)
                   => DeepEqual(GetItemResult(h1, k)'.val, last'.value)
             /\ \A k \in scope.keys :
                   (last'.key = k /\ (last'.op = "removeItem"
                                      \/ (last'.op = "setItem" /\ NullOrUndefined(last'.value))))
                   => GetItemResult(h1, k)'.val = JSNull
             /\ \A h2 \in handles :
                   (h2.storage = h1.storage /\ h2.prefix # h1.prefix)
                   => /\ Reads(h2)' = Reads(h2)
                      /\ \A w \in written :
                            (w[1] = h2.storage /\ w[2] = h2.prefix)
                            => /\ w[3] \in DOMAIN storage'[w[1]]
                               /\ storage'[w[1]][w[3]] = storage[w[1]][w[3]]]_vars

(* C5  Area isolation: a call through a handle of one area changes neither   *)
(* the other area's substrate nor what get, length and key return on the     *)
(* other area's handles.                                                     *)
C5_AreaIsolation ==
    [][\A h1 \in handles :
          (last'.op \in HandleOps /\ last'.storage = h1.storage /\ last'.prefix = h1.prefix)
          => \A s2 \in Areas \ {h1.storage} :
                /\ storage'[s2] = storage[s2]
                /\ \A h2 \in handles : h2.storage = s2 => Reads(h2)' = Reads(h2)]_vars

C5_Witness ==
    \E h1, h2 \in handles :
        /\ h1.storage # h2.storage /\ h1.prefix = h2.prefix
        /\ Via(h1) /\ last.op = "setItem" /\ last.value = JSStr("a")
        /\ GetItemResult(h2, last.key).val = JSObj(1, TRUE)
        /\ buildKey(h2.prefix, last.key) \in DOMAIN storage[h2.storage]

----------------------------------------------------------------------------
(* Construction and change notifications *)

\* the values whose encoding another context may have stored
Encodable == {JSStr("a"), JSObj(1, FALSE), JSNull}
encode(v) == JSToString(JSONStringify(v))

\* the (area, prefix) pair of a registered entry, from its cache key
EntryArea(ck) == ck[1]
EntryPrefix(ck) == slice(ck, 2)

LogicalName(k) == [t |-> "string", chars |-> k]

\* the handle just constructed
Constructed(h) ==
    last.op = "construct" /\ ~last.threw /\ last.storage = h.storage /\ last.prefix = h.prefix

\* get(k) returns v, and the full key is managed: counted by length, returned by key(i)
Loaded(h, k, v) ==
    /\ ~GetItemResult(h, k).threw
    /\ DeepEqual(GetItemResult(h, k).val, v)
IsManaged(h, k) ==
    /\ SetHas(keysHeap[h.managedKeys], buildKey(h.prefix, k))
    /\ \E i \in Indexes : i < Length(h) /\ Key(h, i) = LogicalName(k)

\* substrate keys outside `${N}:` are not loaded, and get does not return them
ForeignKeysIgnored(h) ==
    \A f \in DOMAIN storage[h.storage] :
        ~startsWith(f, h.prefix \o <<":">>)
        => /\ f \notin DOMAIN cacheHeap[h.cache]
           /\ ~SetHas(keysHeap[h.managedKeys], f)
           /\ buildKey(h.prefix, f) \notin DOMAIN storage[h.storage]
                 => GetItemResult(h, f) = [threw |-> FALSE, val |-> JSNull]

(* C6  Construction reconciliation (as stated): when the substrate holds     *)
(* `${N}:k` with raw value encode(v) before a handle for (A, N) is           *)
(* constructed, then right after the construction get(k) returns v and the   *)
(* key is managed; keys not under `${N}:` are not loaded.                    *)
C6_ConstructionReconciliation ==
    \A h \in handles :
        Constructed(h)
        => /\ \A k \in scope.keys, v \in Encodable :
                 (/\ buildKey(h.prefix, k) \in DOMAIN storage[h.storage]
                  /\ storage[h.storage][buildKey(h.prefix, k)] = encode(v))
                 => Loaded(h, k, v) /\ IsManaged(h, k)
           /\ ForeignKeysIgnored(h)

\* before this step the entry of (s, prefix) existed and held the full key both
\* in its managed set and in its cache
AlreadyCached(s, prefix, fullKey) ==
    LET ck == getCacheKey(s, prefix)
    IN /\ ck \in DOMAIN sharedCaches
       /\ SetHas(keysHeap[sharedManagedKeys[ck]], fullKey)
       /\ MapHas(cacheHeap[sharedCaches[ck]], fullKey)

(* C6  as amended: the key is managed after every construction, and get(k)   *)
(* returns v unless the entry existed before and already held the key both   *)
(* managed and cached (its cached value is then kept).                       *)
C6_ReconciliationOfNewKeys ==
    [][\A h \in handles' :
          Constructed(h)'
          => /\ \A k \in scope.keys, v \in Encodable :
                   (/\ buildKey(h.prefix, k) \in DOMAIN storage[h.storage]
                    /\ storage[h.storage][buildKey(h.prefix, k)] = encode(v))
                   => /\ IsManaged(h, k)'
                      /\ ~AlreadyCached(h.storage, h.prefix, buildKey(h.prefix, k))
                            => Loaded(h, k, v)'
             /\ ForeignKeysIgnored(h)']_vars

C6_Witness ==
    \E h \in handles :
        /\ Constructed(h)
        /\ used.construct = 1 /\ used.call = 0 /\ used.event = 0
        /\ \E k \in scope.keys :
              /\ storage[h.storage] = (buildKey(h.prefix, k) :> encode(JSObj(1, FALSE)))
              /\ Loaded(h, k, JSObj(1, FALSE)) /\ IsManaged(h, k)

\* the step is a change notification for full key f with origin area s
Notified(s, f) == last'.op = "event" /\ last'.key = f /\ last'.storage = s

\* before the step, the entry of handle h manages the full key f
Manages(h, f) == SetHas(keysHeap[h.managedKeys], f)

(* C7  External change to a managed key: after a notification (key =         *)
(* `${N}:k`, newValue = encode(v2), origin = A) for a key that entry (A, N)  *)
(* manages, get(k) returns v2 on every handle of the entry and the key is    *)
(* still managed.                                                            *)
C7_ExternalChange ==
    [][\A h \in handles, k \in scope.keys, v2 \in Encodable :
          (/\ Notified(h.storage, buildKey(h.prefix, k))
           /\ Manages(h, buildKey(h.prefix, k))
           /\ last'.value = JSONStringify(v2))
          => \A h2 \in handles :
                SamePair(h, h2) => Loaded(h2, k, v2)' /\ IsManaged(h2, k)']_vars

(* C8  External change to a newly discovered key: a notification from area A *)
(* with a non-absent value for a full key under `${N}:` that the registered  *)
(* entry (A, N) does not manage puts the key into the entry's cache, with    *)
(* the decoded value, and into its managed set: length grows by one and      *)
(* key(i) enumerates it.                                                     *)
C8_ExternalDiscovery ==
    [][\A h \in handles, k \in scope.keys, v \in Encodable \ {JSNull} :
          (/\ Notified(h.storage, buildKey(h.prefix, k))
           /\ ~Manages(h, buildKey(h.prefix, k))
           /\ last'.value = JSONStringify(v))
          => /\ MapHas(cacheHeap'[h.cache], buildKey(h.prefix, k))
             /\ DeepEqual(cacheHeap'[h.cache][buildKey(h.prefix, k)], v)
             /\ IsManaged(h, k)'
             /\ Length(h)' = Length(h) + 1]_vars

(* C9  External removal: a notification from area A with an absent newValue  *)
(* for a full key that entry (A, N) manages drops the key from the entry's   *)
(* cache mapping and from its managed set; afterwards get(k) is null and     *)
(* length is one smaller on every handle of the entry.                       *)
C9_ExternalRemoval ==
    [][\A h \in handles, k \in scope.keys :
          (/\ Notified(h.storage, buildKey(h.prefix, k))
           /\ Manages(h, buildKey(h.prefix, k))
           /\ last'.value = JSNull)
          => \A h2 \in handles :
                SamePair(h, h2)
                => /\ ~MapHas(cacheHeap'[h2.cache], buildKey(h.prefix, k))
                   /\ ~SetHas(keysHeap'[h2.managedKeys], buildKey(h.prefix, k))
                   /\ GetItemResult(h2, k)' = [threw |-> FALSE, val |-> JSNull]
                   /\ Length(h2)' = Length(h2) - 1]_vars

\* the notification does not concern the registered entry ck: it carries no key,
\* a key outside the entry's `${N}:`, or another origin area
Filtered(ck) ==
    \/ last'.key = NoKey
    \/ ~startsWith(last'.key, EntryPrefix(ck) \o <<":">>)
    \/ last'.storage # EntryArea(ck)

----------------------------------------------------------------------------
(* clear, remove and enumeration *)

\* the full key is under the namespace prefix `${N}:`
Under(prefix, f) == startsWith(f, prefix \o <<":">>)

(* C11  clear() removes all items matching the prefix: after clear() on a     *)
(* handle for (A, N), whatever preceded it, no key beginning with `${N}:`    *)
(* remains in A's substrate, get(k) is null for every logical key k, and     *)
(* length is 0 on every handle sharing the entry.                            *)
C11_ClearRemovesAll ==
    \A h \in handles :
        (Via(h) /\ last.op = "clear")
        => /\ \A f \in DOMAIN storage[h.storage] : ~Under(h.prefix, f)
           /\ \A h2 \in handles :
                 SamePair(h, h2)
                 => /\ Length(h2) = 0
                    /\ \A k \in scope.keys :
                          GetItemResult(h2, k) = [threw |-> FALSE, val |-> JSNull]

(* C12  clear() frame: clear() on a handle for (A, N) leaves unchanged every *)
(* substrate key of A that is not under `${N}:`, the whole substrate of the  *)
(* other area, and the cache and managed set of every other registry entry.  *)
C12_ClearFrame ==
    [][\A h \in handles :
          (last'.op = "clear" /\ last'.storage = h.storage /\ last'.prefix = h.prefix)
          => /\ \A f \in DOMAIN storage[h.storage] :
                   ~Under(h.prefix, f)
                   => /\ f \in DOMAIN storage'[h.storage]
                      /\ storage'[h.storage][f] = storage[h.storage][f]
             /\ \A s2 \in Areas \ {h.storage} : storage'[s2] = storage[s2]
             /\ \A ck \in DOMAIN sharedCaches \ {h.cacheKey} :
                   /\ cacheHeap'[sharedCaches[ck]] = cacheHeap[sharedCaches[ck]]
                   /\ keysHeap'[sharedManagedKeys[ck]] = keysHeap[sharedManagedKeys[ck]]]_vars

\* clear() removed its one managed key while the key of another namespace stays
\* in the same substrate
C12_Witness ==
    \E h, h2 \in handles :
        /\ Via(h) /\ last.op = "clear" /\ last.before = JSNum(1)
        /\ h2.storage = h.storage /\ h2.prefix # h.prefix
        /\ Length(h2) = 1
        /\ DOMAIN storage[h.storage] = Range(keysHeap[h2.managedKeys])
        /\ \A f \in DOMAIN storage[h.storage] : ~Under(h.prefix, f)

\* the step is a call of op through a handle for h's (area, prefix) pair
Calls(h, op) == last'.op = op /\ last'.storage = h.storage /\ last'.prefix = h.prefix

\* `${N}:k`, written out
FullKey(h, k) == h.prefix \o <<":">> \o k

Without(m, f) == [x \in DOMAIN m \ {f} |-> m[x]]

(* C13  remove(k) on a handle for (A, N) deletes exactly the full key        *)
(* `${N}:k` from the cache mapping, the managed set and A's substrate; every *)
(* other key is unchanged, in particular an unprefixed substrate key named k.*)
C13_RemoveExactlyOne ==
    [][\A h \in handles, k \in scope.keys :
          (Calls(h, "removeItem") /\ last'.key = k)
          => /\ cacheHeap' = [cacheHeap EXCEPT ![h.cache] = Without(@, FullKey(h, k))]
             /\ keysHeap' = [keysHeap EXCEPT ![h.managedKeys] =
                                SelectSeq(@, LAMBDA x : x # FullKey(h, k))]
             /\ storage' = [storage EXCEPT ![h.storage] = Without(@, FullKey(h, k))]
             /\ (k \in DOMAIN storage[h.storage]
                    => k \in DOMAIN storage'[h.storage]
                       /\ storage'[h.storage][k] = storage[h.storage][k])]_vars

\* a stored value was removed while the unprefixed key named k stays
C13_Witness ==
    \E h \in handles :
        /\ Via(h) /\ last.op = "removeItem" /\ last.key = <<"k">>
        /\ last.before = JSStr("a")
        /\ DOMAIN storage[h.storage] = {<<"k">>}
        /\ Length(h) = 0 /\ DOMAIN cacheHeap[h.cache] = {}

\* the full key is in neither the cache mapping, the managed set nor the substrate
Absent(h, k) ==
    /\ FullKey(h, k) \notin DOMAIN cacheHeap[h.cache]
    /\ ~SetHas(keysHeap[h.managedKeys], FullKey(h, k))
    /\ FullKey(h, k) \notin DOMAIN storage[h.storage]

NothingChanges ==
    /\ cacheHeap' = cacheHeap /\ keysHeap' = keysHeap /\ storage' = storage
    /\ ~last'.threw

Enumerates(h) ==
    LET n == Length(h)
        keys == keysHeap[h.managedKeys]
    IN /\ \A i \in 0 .. n - 1 :
             /\ Key(h, i).t = "string"
             /\ h.prefix \o <<":">> \o Key(h, i).chars = keys[i + 1]
       /\ \A i, j \in 0 .. n - 1 : i # j => Key(h, i) # Key(h, j)
       /\ {h.prefix \o <<":">> \o Key(h, i).chars : i \in 0 .. n - 1} = Range(keys)
       /\ \A i \in Indexes : (i < 0 \/ i >= n) => Key(h, i) = JSNull
       /\ \A a, b \in scope.keys :
             (a # b /\ Range(keys) = {FullKey(h, a), FullKey(h, b)})
             => /\ n = 2
                /\ {Key(h, 0), Key(h, 1)} = {LogicalName(a), LogicalName(b)}
                /\ Key(h, 2) = JSNull

(* C15  Enumeration correctness: in every state key(i), for i in [0, length),*)
(* returns pairwise distinct prefix-stripped logical keys whose set is the   *)
(* logical keys of the managed set; key(i) is null for i < 0 and i >= length;*)
(* key(i) repeated without a mutation in between returns the same; after     *)
(* set(a, 1); set(b, 2) on an empty entry length is 2 and {key(0), key(1)}   *)
(* is {a, b}.                                                                *)
C15_Enumeration ==
    [][\A h \in handles' :
          /\ Enumerates(h)'
          /\ (h \in handles /\ keysHeap'[h.managedKeys] = keysHeap[h.managedKeys])
                => \A i \in Indexes : Key(h, i)' = Key(h, i)]_vars

\* two sets on an empty entry
C15_Witness ==
    \E h \in handles :
        /\ Via(h) /\ last.op = "setItem" /\ last.before = JSNull
        /\ used = [construct |-> 1, call |-> 2, direct |-> 0, event |-> 0]
        /\ Length(h) = 2
        /\ {Key(h, 0), Key(h, 1)} = {LogicalName(<<"k">>), LogicalName(<<"j">>)}
        /\ Key(h, 2) = JSNull

----------------------------------------------------------------------------
(* Immutability, clearCache, re-construction, persisted form *)

Frozen(v) == v.t = "object" => v.frozen

(* C16  Immutability and copy semantics: every object of a value returned by *)
(* get is frozen, whichever path put it into the cache (set, construction     *)
(* scan, repair read, change notification); set does not freeze the caller's *)
(* object and does not store it: the cache holds a frozen copy, which the     *)
(* caller's unfrozen object is not.                                           *)
C16_FrozenCopies ==
    /\ \A i \in DOMAIN cacheHeap : \A f \in DOMAIN cacheHeap[i] : Frozen(cacheHeap[i][f])
    /\ \A h \in handles, k \in scope.keys : Frozen(GetItemResult(h, k).val)
    /\ last.op = "getItem" => Frozen(last.ret)
    /\ \A h \in handles :
          (Via(h) /\ last.op = "setItem" /\ last.value.t = "object")
          => /\ ~last.value.frozen
             /\ GetItemResult(h, last.key).val # last.value
             /\ DeepEqual(GetItemResult(h, last.key).val, last.value)

\* one object cached by set and one by the repair read, both frozen
C16_Witness ==
    \E h \in handles :
        /\ Via(h) /\ last.op = "getItem" /\ last.ret = JSObj(1, TRUE)
        /\ Length(h) = 1 /\ written # {}
        /\ Cardinality(DOMAIN cacheHeap[h.cache]) = 2
        /\ \A f \in DOMAIN cacheHeap[h.cache] : cacheHeap[h.cache][f] = JSObj(1, TRUE)

\* res is decode of what substrate st holds under full key f: null when the key
\* is absent, v when the raw value is encode(v)
DecodeOf(res, st, f) ==
    /\ f \notin DOMAIN st => res = [threw |-> FALSE, val |-> JSNull]
    /\ \A v \in Encodable :
          (f \in DOMAIN st /\ st[f] = encode(v))
          => ~res.threw /\ DeepEqual(res.val, v)

DirectOps == {"directSetItem", "directRemoveItem"}

(* C17  clearCache then re-derive: clearCache() does not change the          *)
(* substrate; right after it, and after direct substrate changes that follow *)
(* it, get(k) is decode of the substrate's current value for `${N}:k` (null  *)
(* if absent) for every logical key k, and the get(k) call on a key that is  *)
(* not cached returns just that.                                             *)
C17_ClearCacheRederives ==
    [][\A h \in handles, k \in scope.keys :
          /\ Calls(h, "clearCache")
                => /\ storage' = storage
                   /\ DecodeOf(GetItemResult(h, k)', storage'[h.storage], FullKey(h, k))
          /\ (last'.op \in DirectOps /\ FullKey(h, k) \notin DOMAIN cacheHeap[h.cache])
                => DecodeOf(GetItemResult(h, k)', storage'[h.storage], FullKey(h, k))
          /\ (Calls(h, "getItem") /\ last'.key = k
                 /\ FullKey(h, k) \notin DOMAIN cacheHeap[h.cache])
                => DecodeOf([threw |-> last'.threw, val |-> last'.ret],
                            storage[h.storage], FullKey(h, k))]_vars

\* a key loaded at construction from a direct write, then dropped from the cache
C17_Witness ==
    \E h \in handles, k \in scope.keys :
        /\ Via(h) /\ last.op = "clearCache"
        /\ used.direct = 1 /\ written = {}
        /\ Manages(h, FullKey(h, k))
        /\ DOMAIN cacheHeap[h.cache] = {}
        /\ storage[h.storage] = (FullKey(h, k) :> encode(JSObj(1, FALSE)))
        /\ GetItemResult(h, k).val = JSObj(1, TRUE)

\* the managed keys of h's entry that the substrate no longer holds, and the
\* substrate keys under `${N}:` that the entry does not manage yet
GoneKeys(h) == {f \in Range(keysHeap[h.managedKeys]) : f \notin DOMAIN storage[h.storage]}
NewKeys(h) == {f \in DOMAIN storage[h.storage] : Under(h.prefix, f) /\ ~Manages(h, f)}

(* C18  Re-construction reconciles the shared entry with the substrate's key *)
(* set: constructing a further handle for a registered (A, N) drops from the *)
(* shared cache and managed set every managed key that is no longer in the   *)
(* substrate (existing handles then see get = null and the reduced length),  *)
(* and makes every key under `${N}:` that was added directly to the          *)
(* substrate visible through get on every existing handle.                   *)
C18_ReconstructionReconciles ==
    [][\A h \in handles :
          (last'.op = "construct" /\ ~last'.threw
              /\ last'.storage = h.storage /\ last'.prefix = h.prefix)
          => /\ \A f \in GoneKeys(h) :
                   /\ f \notin DOMAIN cacheHeap'[h.cache]
                   /\ ~SetHas(keysHeap'[h.managedKeys], f)
             /\ \A k \in scope.keys :
                   FullKey(h, k) \in GoneKeys(h)
                   => GetItemResult(h, k)' = [threw |-> FALSE, val |-> JSNull]
             /\ Length(h)' = Length(h) - Cardinality(GoneKeys(h)) + Cardinality(NewKeys(h))
             /\ \A k \in scope.keys, v \in Encodable :
                   (/\ FullKey(h, k) \in NewKeys(h)
                    /\ storage[h.storage][FullKey(h, k)] = encode(v))
                   => Loaded(h, k, v)' /\ IsManaged(h, k)']_vars

\* the second construction for the one registered pair found its managed key gone
C18_Witness ==
    \E h \in handles :
        /\ Constructed(h) /\ last.before = JSNum(1)
        /\ used.construct = 2 /\ Cardinality(DOMAIN sharedCaches) = 1
        /\ Length(h) = 0 /\ DOMAIN cacheHeap[h.cache] = {}
        /\ \A k \in scope.keys : GetItemResult(h, k).val = JSNull

\* the JSON string of the values callers set
JSONText(v) == IF v.t = "string" THEN "\"" \o v.s \o "\"" ELSE "{\"n\":1}"

\* the namespace of a handle constructed with the arguments of the last call
NamespaceOf(call) ==
    IF call.value = JSUndefined THEN <<"__tracked_storage__">> ELSE call.value.chars

(* C19  Persisted form: after set(k, v) with a non-null v on a handle for    *)
(* (A, N), A's substrate maps exactly the full key `${N}:k` to the JSON      *)
(* string of v; N is `__tracked_storage__` for a handle constructed without  *)
(* a prefix and the given prefix otherwise.                                  *)
C19_PersistedForm ==
    [][/\ \A h \in handles, k \in scope.keys :
             (Calls(h, "setItem") /\ last'.key = k /\ Serializable(last'.value) /\ ~last'.threw)
             => storage' = [storage EXCEPT ![h.storage] =
                               [x \in DOMAIN @ \cup {FullKey(h, k)} |->
                                   IF x = FullKey(h, k) THEN JSONText(last'.value) ELSE @[x]]]
       /\ (last'.op = "construct" /\ ~last'.threw)
             => /\ last'.prefix = NamespaceOf(last')
                /\ \E h \in handles' :
                      /\ h.storage = last'.storage /\ h.prefix = NamespaceOf(last')
                      /\ handles' \ handles \subseteq {h}]_vars

\* an object set through a handle of the default namespace
C19_Witness ==
    \E h \in handles :
        /\ Via(h) /\ last.op = "setItem" /\ last.value = JSObj(1, FALSE)
        /\ h.prefix = <<"__tracked_storage__">>
        /\ used.direct = 0
        /\ storage[h.storage] = (<<"__tracked_storage__", ":", "k">> :> "{\"n\":1}")

(* C20  README cross-tab example: after instanceA.setItem(k, v1), a storage  *)
(* event with key `__tracked_storage__:k`, newValue encode(v2) and no        *)
(* storageArea makes getItem(k) return v2 on every handle of the             *)
(* (localStorage, default prefix) entry.                                     *)
C20_ReadmeCrossTab ==
    [][\A h \in handles, k \in scope.keys, v2 \in Encodable \ {JSNull} :
          (/\ h.storage = "local" /\ h.prefix = DEFAULT_PREFIX
           /\ Notified(NoArea, FullKey(h, k))
           /\ Manages(h, FullKey(h, k))
           /\ <<h.storage, h.prefix, FullKey(h, k)>> \in written
           /\ last'.value = JSONStringify(v2))
          => Loaded(h, k, v2)']_vars

\* the values that have no JSON text
Unrepresentable(v) == v.t \in {"function", "circular"}

(* C21  Serialization failure: set(k, v) with a value that has no JSON text  *)
(* (a function, a symbol, a circular structure) raises to the caller and     *)
(* leaves the cache, the managed set and the substrate as they were.         *)
C21_SerializationFailure ==
    [][\A h \in handles, k \in scope.keys :
          (Calls(h, "setItem") /\ last'.key = k /\ Unrepresentable(last'.value))
          => /\ last'.threw
             /\ cacheHeap' = cacheHeap
             /\ keysHeap' = keysHeap
             /\ storage' = storage]_vars

(* C22  Substrate write failure: when the substrate raises during set(k, v), *)
(* the cache and the managed set are not left holding `${N}:k` while the     *)
(* substrate lacks it: get(k) is still decode of the substrate's value.      *)
C22_WriteFailure ==
    [][\A h \in handles, k \in scope.keys :
          (Calls(h, "setItem") /\ last'.key = k /\ Serializable(last'.value) /\ last'.threw)
          => /\ FullKey(h, k) \notin DOMAIN storage'[h.storage]
                   => /\ FullKey(h, k) \notin DOMAIN cacheHeap'[h.cache]
                      /\ ~SetHas(keysHeap'[h.managedKeys], FullKey(h, k))
             /\ DecodeOf(GetItemResult(h, k)', storage'[h.storage], FullKey(h, k))]_vars

\* the raw texts that are JSON, and those that are not
ValidJSON == {"\"a\"", "{\"n\":1}", "null"}
Malformed(text) == text \notin ValidJSON

\* the entry of (s, prefix), if registered, manages full key f
Tracked(s, prefix, f) ==
    \E h \in handles : h.storage = s /\ h.prefix = prefix /\ Manages(h, f)

(* C23  Decode failure: decoding yields null only for an absent raw value    *)
(* and for the text of JSON null; for every raw string that is not JSON, the *)
(* empty string included, the operation that read it (construction scan, get *)
(* repair, notification handling) fails instead of yielding null.            *)
C23_DecodeFailure ==
    [][/\ (last'.op = "construct"
            /\ \E f \in DOMAIN storage[last'.storage] :
                  /\ Under(last'.prefix, f)
                  /\ ~Tracked(last'.storage, last'.prefix, f)
                  /\ Malformed(storage[last'.storage][f]))
          => last'.threw
       /\ \A h \in handles, k \in scope.keys :
             (Calls(h, "getItem") /\ last'.key = k
                 /\ FullKey(h, k) \notin DOMAIN cacheHeap[h.cache]
                 /\ FullKey(h, k) \in DOMAIN storage[h.storage])
             => /\ Malformed(storage[h.storage][FullKey(h, k)]) => last'.threw
                /\ (~last'.threw /\ last'.ret = JSNull)
                      => storage[h.storage][FullKey(h, k)] = "null"
       /\ (last'.op = "event" /\ last'.value.t = "string" /\ Malformed(last'.value.s)
              /\ EventTargets(last'.key, last'.storage) # {})
          => last'.threw]_vars

(* C26  After every operation returns, the keys of an entry's cache mapping  *)
(* are exactly the entry's managed keys.                                     *)
C26_CacheKeysAreManaged ==
    \A h \in handles : DOMAIN cacheHeap[h.cache] = Range(keysHeap[h.managedKeys])

(* C27  A change another context makes to the substrate is not observable    *)
(* through get, length or key on the handles that exist, until its change    *)
(* notification has been processed.                                          *)
C27_VisibilityOrdering ==
    [][last'.op \in DirectOps => \A h \in handles : Reads(h)' = Reads(h)]_vars

\* every change to the substrate keys under h's `${N}:` went through a handle of
\* h's pair: nothing was written directly, nothing was notified, and no other
\* namespace in use lies under `${N}:` or has `${N}:` under it
HandleOnly(h) ==
    /\ used.direct = 0 /\ used.event = 0
    /\ \A p \in scope.prefixes :
          p # h.prefix => /\ ~Under(h.prefix, p \o <<":">>)
                          /\ ~Under(p, h.prefix \o <<":">>)

(* C29  Handle-only consistency: while every change to the substrate keys    *)
(* under `${N}:` is made through handles for (A, N), the managed set is the  *)
(* set of substrate keys under `${N}:` and every cached value is decode of   *)
(* the substrate value under the same full key.                              *)
C29_HandleOnlyConsistency ==
    \A h \in handles :
        HandleOnly(h)
        => /\ Range(keysHeap[h.managedKeys])
                 = {f \in DOMAIN storage[h.storage] : Under(h.prefix, f)}
           /\ \A f \in DOMAIN cacheHeap[h.cache] :
                 /\ f \in DOMAIN storage[h.storage]
                 /\ \E v \in Encodable :
                       /\ storage[h.storage][f] = encode(v)
                       /\ DeepEqual(cacheHeap[h.cache][f], v)

(* C30  Construction never resets shared state: constructing a further       *)
(* handle for a registered (A, N) resolves to the existing entry, keeps      *)
(* every managed key and every cached key whose full key is in the substrate *)
(* (and the cached value of every such managed key), and the handles made    *)
(* before and by the construction refer to the same cache and managed set.   *)
C30_ConstructionKeepsEntry ==
    [][\A h \in handles :
          (last'.op = "construct" /\ last'.storage = h.storage /\ last'.prefix = h.prefix)
          => /\ sharedCaches' = sharedCaches
             /\ sharedManagedKeys' = sharedManagedKeys
             /\ h \in handles'
             /\ \A h2 \in handles' :
                   SamePair(h, h2) => h2.cache = h.cache /\ h2.managedKeys = h.managedKeys
             /\ \A f \in DOMAIN storage[h.storage] :
                   /\ Manages(h, f) => SetHas(keysHeap'[h.managedKeys], f)
                   /\ f \in DOMAIN cacheHeap[h.cache] => f \in DOMAIN cacheHeap'[h.cache]
                   /\ (Manages(h, f) /\ f \in DOMAIN cacheHeap[h.cache])
                         => cacheHeap'[h.cache][f] = cacheHeap[h.cache][f]]_vars

\* the second construction for a pair whose entry held a value set through the
\* first handle: the value is still there
C30_Witness ==
    \E h \in handles, k \in scope.keys :
        /\ Constructed(h) /\ last.before = JSNum(1)
        /\ used.construct = 2 /\ Cardinality(DOMAIN sharedCaches) = 1
        /\ <<h.storage, h.prefix, FullKey(h, k)>> \in written
        /\ Length(h) = 1
        /\ FullKey(h, k) \in DOMAIN cacheHeap[h.cache]
        /\ cacheHeap[h.cache][FullKey(h, k)] = JSStr("a")

\* the key a decorated property is stored under: its custom key when one is
\* given, else its own name; and its declared default, if any
StorageKeyOf(p) == IF p.customKey = NoKey THEN p.name ELSE p.customKey
DefaultOf(p) == IF p.initializer.given THEN p.initializer.value ELSE JSUndefined

C25_Reinitialisation ==
    [][\A pair \in decorated, v \in Encodable \ {JSNull} :
          LET h == pair[1]
              p == pair[2]
              f == FullKey(h, StorageKeyOf(p))
          IN (/\ Calls(h, "initializeKey") /\ last'.key = StorageKeyOf(p)
              /\ f \in DOMAIN storage[h.storage]
              /\ storage[h.storage][f] = encode(v)
              /\ <<h.storage, h.prefix, f>> \notin written)
             => /\ ~PropertyGetResult(h, p)'.threw
                /\ DeepEqual(PropertyGetResult(h, p)'.val, v)]_vars

(* C28  Eventual agreement under interleaving: for every interleaving of     *)
(* local set and remove with another context's writes to the same key and    *)
(* the later delivery of their notifications, once no notification is        *)
(* pending get(k) is decode of the substrate's current value for `${N}:k`.   *)
C28_EventualAgreement ==
    \A h \in handles, k \in scope.keys :
        pending = <<>>
        => DecodeOf(GetItemResult(h, k), storage[h.storage], FullKey(h, k))

\* the handles of the pair the last call constructed a handle for
Built(h) == last'.op = "construct" /\ ~last'.threw
               /\ last'.storage = h.storage /\ last'.prefix = h.prefix

(* C31  Construction leaves the entry in sync with the substrate's values:   *)
(* right after any construction of a handle for (A, N), get(k) is decode of  *)
(* the substrate's current value for `${N}:k` for every logical key k, also  *)
(* for managed keys whose substrate value was changed directly.              *)
C31_ConstructionInSync ==
    [][\A h \in handles', k \in scope.keys :
          Built(h) => DecodeOf(GetItemResult(h, k)', storage'[h.storage], FullKey(h, k))]_vars

(* C31  as amended: after a construction get(k) is decode of the substrate's *)
(* current value for every key the entry's cache did not hold before, and    *)
(* null for every managed key that is gone from the substrate; a key that    *)
(* was managed and cached and is still in the substrate keeps its cached     *)
(* value.                                                                    *)
C31_ConstructionSyncsUncached ==
    [][\A h \in handles', k \in scope.keys :
          Built(h)
          => LET ck == getCacheKey(h.storage, h.prefix)
                 f == FullKey(h, k)
                 known == ck \in DOMAIN sharedCaches
                 cachedBefore == known /\ f \in DOMAIN cacheHeap[h.cache]
                 managedBefore == known /\ SetHas(keysHeap[h.managedKeys], f)
             IN /\ ~cachedBefore
                      => DecodeOf(GetItemResult(h, k)', storage'[h.storage], f)
                /\ (managedBefore /\ f \notin DOMAIN storage[h.storage])
                      => GetItemResult(h, k)' = [threw |-> FALSE, val |-> JSNull]
                /\ (managedBefore /\ cachedBefore /\ f \in DOMAIN storage[h.storage])
                      => GetItemResult(h, k)'.val = cacheHeap[h.cache][f]]_vars

\* the second construction for a pair found a key that had been written directly
\* and was not cached
C31_Witness ==
    \E h \in handles, k \in scope.keys :
        /\ Constructed(h) /\ last.before = JSNum(0)
        /\ used.construct = 2 /\ used.direct = 1 /\ used.call = 0
        /\ Cardinality(DOMAIN sharedCaches) = 1
        /\ storage[h.storage] = (FullKey(h, k) :> "\"a\"")
        /\ GetItemResult(h, k).val = JSStr("a")
        /\ Manages(h, FullKey(h, k))

(* C32  get on a never-existing key is a pure read: when the full key is in  *)
(* neither the cache nor the substrate, get(k) returns null and leaves the   *)
(* cache mapping, the managed set and the substrate unchanged.               *)
C32_GetAbsentIsPure ==
    [][\A h \in handles, k \in scope.keys :
          (/\ Calls(h, "getItem") /\ last'.key = k
           /\ FullKey(h, k) \notin DOMAIN cacheHeap[h.cache]
           /\ FullKey(h, k) \notin DOMAIN storage[h.storage])
          => /\ ~last'.threw /\ last'.ret = JSNull
             /\ cacheHeap' = cacheHeap
             /\ keysHeap' = keysHeap
             /\ storage' = storage]_vars

\* get of a key that does not exist, on an entry that holds another key
C32_Witness ==
    \E h \in handles :
        /\ Via(h) /\ last.op = "getItem" /\ last.ret = JSNull
        /\ FullKey(h, last.key) \notin DOMAIN cacheHeap[h.cache]
        /\ FullKey(h, last.key) \notin DOMAIN storage[h.storage]
        /\ Cardinality(DOMAIN cacheHeap[h.cache]) = 1
        /\ Length(h) = 1

(* C33  get repair step: when the full key is not in the cache but the       *)
(* substrate holds a value for it, get(k) returns the decoded value and puts *)
(* it into the cache, so that the next get(k), on this handle and on every   *)
(* other handle of the entry, is served that value from the cache.           *)
C33_GetRepair ==
    [][\A h \in handles, k \in scope.keys, v \in Encodable :
          (/\ Calls(h, "getItem") /\ last'.key = k
           /\ FullKey(h, k) \notin DOMAIN cacheHeap[h.cache]
           /\ FullKey(h, k) \in DOMAIN storage[h.storage]
           /\ storage[h.storage][FullKey(h, k)] = encode(v))
          => /\ ~last'.threw /\ DeepEqual(last'.ret, v)
             /\ FullKey(h, k) \in DOMAIN cacheHeap'[h.cache]
             /\ cacheHeap'[h.cache][FullKey(h, k)] = last'.ret
             /\ \A h2 \in handles :
                   SamePair(h, h2)
                   => /\ FullKey(h2, k) \in DOMAIN cacheHeap'[h2.cache]
                      /\ GetItemResult(h2, k)' = [threw |-> FALSE, val |-> last'.ret]]_vars

\* a get read an object that had been written directly and cached it
C33_Witness ==
    \E h \in handles :
        /\ Via(h) /\ last.op = "getItem" /\ last.ret = JSObj(1, TRUE)
        /\ used.direct = 1 /\ written = {}
        /\ ~Manages(h, FullKey(h, last.key))
        /\ FullKey(h, last.key) \in DOMAIN cacheHeap[h.cache]
        /\ cacheHeap[h.cache][FullKey(h, last.key)] = JSObj(1, TRUE)

\* a sequence of keys with key f left out
Except(q, f) == SelectSeq(q, LAMBDA x : x # f)

(* C34  set frame: set(k, v) on a handle for (A, N) changes only the full    *)
(* key `${N}:k`: every other cache entry, every other managed key and every  *)
(* other substrate key (other logical keys, unprefixed keys, other           *)
(* namespaces, the other area) keeps its value.                              *)
C34_SetFrame ==
    [][\A h \in handles, k \in scope.keys :
          (Calls(h, "setItem") /\ last'.key = k)
          => /\ \A s \in Areas :
                   IF s = h.storage
                   THEN Without(storage'[s], FullKey(h, k)) = Without(storage[s], FullKey(h, k))
                   ELSE storage'[s] = storage[s]
             /\ DOMAIN cacheHeap' = DOMAIN cacheHeap
             /\ \A i \in DOMAIN cacheHeap :
                   IF i = h.cache
                   THEN Without(cacheHeap'[i], FullKey(h, k)) = Without(cacheHeap[i], FullKey(h, k))
                   ELSE cacheHeap'[i] = cacheHeap[i]
             /\ DOMAIN keysHeap' = DOMAIN keysHeap
             /\ \A i \in DOMAIN keysHeap :
                   IF i = h.managedKeys
                   THEN Except(keysHeap'[i], FullKey(h, k)) = Except(keysHeap[i], FullKey(h, k))
                   ELSE keysHeap'[i] = keysHeap[i]
             /\ sharedCaches' = sharedCaches
             /\ sharedManagedKeys' = sharedManagedKeys]_vars

\* the second key of an entry was set: both are cached, managed and stored
C34_Witness ==
    \E h \in handles :
        /\ Via(h) /\ last.op = "setItem" /\ Serializable(last.value) /\ ~last.threw
        /\ last.before = JSNull
        /\ Cardinality(DOMAIN cacheHeap[h.cache]) = 2
        /\ Length(h) = 2
        /\ Cardinality(DOMAIN storage[h.storage]) = 2
        /\ Cardinality(written) = 2

(* C35  Notifications are routed by the key's namespace: a notification from *)
(* area A for a managed key of namespace N2 is applied to entry (A, N2),     *)
(* whichever handle's construction registered the listener of A and whenever *)
(* entry (A, N2) was created.                                                *)
C35_RoutedByNamespace ==
    [][\A h \in handles, k \in scope.keys :
          (Notified(h.storage, FullKey(h, k)) /\ Manages(h, FullKey(h, k)))
          => /\ last'.value = JSNull
                   => /\ ~last'.threw
                      /\ GetItemResult(h, k)' = [threw |-> FALSE, val |-> JSNull]
             /\ \A v \in Encodable :
                   last'.value = JSStr(encode(v))
                   => /\ ~last'.threw
                      /\ FullKey(h, k) \in DOMAIN cacheHeap'[h.cache]
                      /\ DeepEqual(cacheHeap'[h.cache][FullKey(h, k)], v)
                      /\ Loaded(h, k, v)']_vars

\* the first handle of the area is bound to another namespace than the entry,
\* created second, whose managed key the notification changed
C35_Witness ==
    \E h1, h2 \in handles, k \in scope.keys :
        /\ h1.storage = h2.storage /\ h1.prefix # h2.prefix
        /\ h1.cache = 1 /\ h2.cache = 2
        /\ cacheHeap[1] = EmptyMap
        /\ last.op = "event" /\ last.storage = h2.storage /\ ~last.threw
        /\ last.key = FullKey(h2, k)
        /\ last.value = JSStr("{\"n\":1}")
        /\ <<h2.storage, h2.prefix, FullKey(h2, k)>> \in written
        /\ cacheHeap[2][FullKey(h2, k)] = JSObj(1, TRUE)

\* the operations that are not writes (key and length change no state at all)
NonWrites == {"construct", "getItem", "clearCache", "event"}

(* C36  Only writes touch the substrate: construction, get, key, length,     *)
(* clearCache and notification handling never add, change or remove a        *)
(* substrate key; only set, remove and clear (and other contexts) do.        *)
C36_OnlyWritesTouchSubstrate ==
    [][/\ last'.op \in NonWrites => storage' = storage
       /\ storage' # storage
             => last'.op \in {"setItem", "removeItem", "clear"} \cup DirectOps]_vars

\* a removal notification for a key the handle had stored: the entry forgets the
\* key, the substrate still holds it
C36_Witness ==
    \E h \in handles, k \in scope.keys :
        /\ last.op = "event" /\ last.storage = h.storage /\ ~last.threw
        /\ last.key = FullKey(h, k) /\ last.value = JSNull
        /\ <<h.storage, h.prefix, FullKey(h, k)>> \in written
        /\ ~Manages(h, FullKey(h, k))
        /\ storage[h.storage][FullKey(h, k)] = "\"a\""

\* logical key k is counted by length and returned by some key(i)
Counted(h, k) == \E i \in Indexes : 0 <= i /\ i < Length(h) /\ Key(h, i) = LogicalName(k)

(* C37  Enumeration agrees with reads: in every state a logical key k is     *)
(* counted by length and returned by some key(i) if and only if get(k)       *)
(* returns a non-null value.                                                 *)
C37_EnumerationAgreesWithReads ==
    \A h \in handles, k \in scope.keys :
        Counted(h, k) <=> (~GetItemResult(h, k).threw /\ GetItemResult(h, k).val # JSNull)

(* C38  Namespace isolation with nested prefixes: a key written through a    *)
(* handle for another namespace of the same area, also one whose prefix      *)
(* extends this handle's prefix with the separator, is never loaded at       *)
(* construction, managed (returned by key, counted by length) or cached by   *)
(* this handle's entry, nor removed by its clear.                            *)
C38_NestedIsolation ==
    [][\A h1 \in handles', w \in written :
          (w[1] = h1.storage /\ w[2] # h1.prefix)
          => /\ ~SetHas(keysHeap'[h1.managedKeys], w[3])
             /\ w[3] \notin DOMAIN cacheHeap'[h1.cache]
             /\ (last'.op = "clear" /\ last'.storage = h1.storage /\ last'.prefix = h1.prefix)
                   => w[3] \in DOMAIN storage'[w[1]]]_vars

(* C39  A failed construction leaves no partial state: when constructing a   *)
(* handle raises on a malformed substrate value, the registry, every cache   *)
(* mapping and every managed set are as before the attempt, and the other    *)
(* handles and their listeners are as before.                                *)
C39_FailedConstructionIsClean ==
    [][(last'.op = "construct" /\ last'.threw)
          => /\ sharedCaches' = sharedCaches
             /\ sharedManagedKeys' = sharedManagedKeys
             /\ cacheHeap' = cacheHeap
             /\ keysHeap' = keysHeap
             /\ handles' = handles
             /\ listenerRegistered' = listenerRegistered]_vars

====
